---- MODULE Spec2Model ----
(***************************************************************************)
(* Model of the quiz REST API in functions/src/index.ts: two Firestore     *)
(* collections (users, quizzes) and the express route handlers over them.  *)
(* Every `await` on a store call is one step of a request, so the steps of *)
(* concurrently served requests interleave.  The store is the Firestore    *)
(* document store: add() assigns a fresh id, update() fails on a missing   *)
(* document, delete() succeeds on a missing document, and the writes of a  *)
(* transaction commit together or not at all.  The read-only routes        *)
(* GET /users/:userId and GET /quizzes/:quizId are not modelled: they      *)
(* write nothing and every state they could observe is a state of Spec.    *)
(***************************************************************************)
EXTENDS Integers, Sequences, FiniteSets, TLC

\* ---------------------------------------------------------------- bounds
NUsers == 2
NQuizzes == 2
NReq == 2
MaxRequests == 5
MaxTime == 2
ListExtra == 1

\* ------------------------------------------------------- program constants
Limit == 10

UserId == 1..NUsers
QuizId == 1..NQuizzes
ReqId == 1..NReq
ListQuizId == 1..(Limit + ListExtra)

VARIABLES users, quizzes, issued, clock, reqs, sent, budget, solo

vars == <<users, quizzes, issued, clock, reqs, sent, budget, solo>>

\* ------------------------------------------------------------- documents
NoData == [k \in {} |-> 0]

\* an absent document, as a DocumentSnapshot reports it
NoDoc == [exists |-> FALSE, data |-> NoData]

Doc(data) == [exists |-> TRUE, data |-> data]

\* object spread { ...d, ...b }: the keys of b override those of d
Spread(d, b) ==
    [k \in (DOMAIN d) \cup (DOMAIN b) |-> IF k \in DOMAIN b THEN b[k] ELSE d[k]]

\* includes() that never finds the element
IncludesNever(s, e) == FALSE

Includes(s, e) == \E i \in 1..Len(s) : s[i] = e

SetMin(S) == CHOOSE x \in S : \A y \in S : x <= y

SetMax(S) == CHOOSE x \in S : \A y \in S : x >= y

\* ids CollectionReference.add() may assign: an id never issued before.
\* Of the unissued ids the smallest and the largest are tried, so that the
\* order of ids is independent of the order of creation.
AutoId(ids, used) ==
    IF ids \ used = {} THEN {} ELSE {SetMin(ids \ used), SetMax(ids \ used)}

\* ------------------------------------------------------------- responses
NoResp == [type |-> "none"]

Json(type, id, data) == [type |-> type, status |-> 200, id |-> id, data |-> data]

HttpException(status, message) == [status |-> status, message |-> message]

\* an error rejected by the store carries no HTTP status
StoreError == [status |-> 0, message |-> "store"]

errorHandler(err) ==
    [type |-> "error",
     status |-> IF err.status # 0 THEN err.status ELSE 500,
     error |-> err.message]

\* -------------------------------------------------------------- requests
\* a slot serves one request at a time; between requests it is Idle
Idle ==
    [kind |-> "idle", pc |-> "done", uid |-> 0, qid |-> 0, body |-> NoData,
     user |-> NoDoc, quiz |-> NoDoc]

\* a new request is taken up by the first slot that serves none, while
\* requests are still to arrive
Free(r) ==
    /\ reqs[r].pc = "done"
    /\ \A s \in 1..(r - 1) : reqs[s].pc # "done"
    /\ budget > 0

\* the response most recently sent, with the request it answers
Sent(req, resp) ==
    [kind |-> req.kind, uid |-> req.uid, qid |-> req.qid, resp |-> resp]

\* ---------------------------------------------------------------- payloads
\* the payloads that reach the handlers; some carry the keys userCount and
\* createdOn, which no schema names
UserBodies == {[name |-> "Bob"]}

QuizBodies ==
    {[name |-> "Quiz"],
     [name |-> "Quiz", userCount |-> 999, createdOn |-> 77]}

UpdateBodies ==
    {[active |-> TRUE],
     [active |-> TRUE, userCount |-> 999, createdOn |-> 77]}

Init ==
    /\ users = [u \in UserId |-> NoDoc]
    /\ quizzes = [q \in QuizId |-> NoDoc]
    /\ issued = [users |-> {}, quizzes |-> {}]
    /\ clock = 0
    /\ reqs = [r \in ReqId |-> Idle]
    /\ sent = Sent(Idle, NoResp)
    /\ budget = MaxRequests
    /\ solo = "no"

AllIdle == \A s \in DOMAIN reqs : reqs[s] = Idle

\* solo is a history variable.  It is "running" while the only request
\* served is an Enroll that arrived when nothing was being served and the
\* response last sent was the success of an Enroll of the same user and
\* quiz; it is "done" when that request has answered, no other request
\* having arrived meanwhile; otherwise it is "no".
Observe(r, req, answered) ==
    IF reqs[r] = Idle
    THEN IF /\ ~answered /\ req.kind = "enroll" /\ AllIdle
            /\ sent.kind = "enroll" /\ sent.resp.type = "enrolled"
            /\ sent.uid = req.uid /\ sent.qid = req.qid
         THEN "running" ELSE "no"
    ELSE IF solo = "running" THEN (IF answered THEN "done" ELSE "running")
    ELSE "no"

\* the handler of slot r goes on to its next await as req
Await(r, req) ==
    /\ reqs' = [reqs EXCEPT ![r] = req]
    /\ sent' = sent
    /\ solo' = Observe(r, req, FALSE)

\* the handler of slot r, serving req, sends resp and ends
Respond(r, req, resp) ==
    /\ reqs' = [reqs EXCEPT ![r] = Idle]
    /\ sent' = Sent(req, resp)
    /\ solo' = Observe(r, req, TRUE)

\* ------------------------------------------------------- POST /users
CreateUserAdd(r, body) ==
    /\ Free(r)
    /\ \E id \in AutoId(DOMAIN users, issued.users) :
        /\ users' = [users EXCEPT ![id] = Doc(Spread(body, [quizIds |-> <<>>]))]
        /\ issued' = [issued EXCEPT !.users = @ \cup {id}]
        /\ Await(r, [Idle EXCEPT !.kind = "createUser", !.pc = "get", !.uid = id])
    /\ budget' = budget - 1
    /\ UNCHANGED <<quizzes, clock>>

CreateUserGet(r) ==
    /\ reqs[r].kind = "createUser" /\ reqs[r].pc = "get"
    /\ Respond(r, reqs[r], Json("user", reqs[r].uid, users[reqs[r].uid].data))
    /\ UNCHANGED <<users, quizzes, issued, clock, budget>>

\* ------------------------------------------------ DELETE /users/:userId
DeleteUserGet(r, uid) ==
    /\ Free(r)
    /\ LET user == users[uid]
           req == [Idle EXCEPT !.kind = "deleteUser", !.uid = uid]
       IN  IF user.exists
           THEN Await(r, [req EXCEPT !.pc = "delete", !.user = user])
           ELSE Respond(r, req, errorHandler(HttpException(404, "User not found")))
    /\ budget' = budget - 1
    /\ UNCHANGED <<users, quizzes, issued, clock>>

\* DeleteUserDelete with the precondition { exists: true } on the delete: a
\* document already gone makes the store reject the call
DeleteUserDeleteChecked(r) ==
    /\ reqs[r].kind = "deleteUser" /\ reqs[r].pc = "delete"
    /\ users' = [users EXCEPT ![reqs[r].uid] = NoDoc]
    /\ IF users[reqs[r].uid].exists
       THEN Respond(r, reqs[r], Json("user", reqs[r].uid, reqs[r].user.data))
       ELSE Respond(r, reqs[r], errorHandler(StoreError))
    /\ UNCHANGED <<quizzes, issued, clock, budget>>

\* DocumentReference.delete() without a precondition: succeeds whether or
\* not the document is still there
StoreDelete(coll, id) == [coll EXCEPT ![id] = NoDoc]

DeleteUserDelete(r) ==
    /\ reqs[r].kind = "deleteUser" /\ reqs[r].pc = "delete"
    /\ users' = StoreDelete(users, reqs[r].uid)
    /\ Respond(r, reqs[r], Json("user", reqs[r].uid, reqs[r].user.data))
    /\ UNCHANGED <<quizzes, issued, clock, budget>>

\* ------------------------------------------------------ POST /quizzes
\* FieldValue.serverTimestamp(): the store's time at the write, which never
\* runs backwards and may or may not have advanced since the last write
ServerTimestamp == {clock} \cup (IF clock < MaxTime THEN {clock + 1} ELSE {})

\* NewQuiz with the payload spread last, over the forced fields
NewQuizPayloadLast(body, now) == Spread([userCount |-> 0, createdOn |-> now], body)

NewQuiz(body, now) == Spread(body, [userCount |-> 0, createdOn |-> now])

CreateQuizAdd(r, body) ==
    /\ Free(r)
    /\ \E id \in AutoId(DOMAIN quizzes, issued.quizzes), now \in ServerTimestamp :
        /\ quizzes' = [quizzes EXCEPT ![id] = Doc(NewQuiz(body, now))]
        /\ issued' = [issued EXCEPT !.quizzes = @ \cup {id}]
        /\ clock' = now
        /\ Await(r, [Idle EXCEPT !.kind = "createQuiz", !.pc = "get", !.qid = id,
                                 !.body = body])
    /\ budget' = budget - 1
    /\ UNCHANGED users

CreateQuizGet(r) ==
    /\ reqs[r].kind = "createQuiz" /\ reqs[r].pc = "get"
    /\ Respond(r, reqs[r], Json("quiz", reqs[r].qid, quizzes[reqs[r].qid].data))
    /\ UNCHANGED <<users, quizzes, issued, clock, budget>>

\* ----------------------------------------------- POST /quizzes/:quizId
UpdateQuizGet(r, qid, body) ==
    /\ Free(r)
    /\ LET quiz == quizzes[qid]
           req == [Idle EXCEPT !.kind = "updateQuiz", !.qid = qid, !.body = body]
       IN  IF quiz.exists
           THEN Await(r, [req EXCEPT !.pc = "update", !.quiz = quiz])
           ELSE Respond(r, req, errorHandler(HttpException(404, "Quiz not found")))
    /\ budget' = budget - 1
    /\ UNCHANGED <<users, quizzes, issued, clock>>

\* DocumentReference.update(fields): overwrites the given fields of an
\* existing document and leaves its other fields alone
StoreUpdate(coll, id, fields) ==
    [coll EXCEPT ![id] = Doc(Spread(coll[id].data, fields))]

UpdateQuizUpdate(r) ==
    /\ reqs[r].kind = "updateQuiz" /\ reqs[r].pc = "update"
    /\ IF quizzes[reqs[r].qid].exists
       THEN /\ quizzes' = StoreUpdate(quizzes, reqs[r].qid, reqs[r].body)
            /\ Respond(r, reqs[r], Json("quiz", reqs[r].qid,
                                        Spread(reqs[r].quiz.data, reqs[r].body)))
       ELSE /\ quizzes' = quizzes
            /\ Respond(r, reqs[r], errorHandler(StoreError))
    /\ UNCHANGED <<users, issued, clock, budget>>

\* --------------------------------------------- DELETE /quizzes/:quizId
DeleteQuizGet(r, qid) ==
    /\ Free(r)
    /\ LET quiz == quizzes[qid]
           req == [Idle EXCEPT !.kind = "deleteQuiz", !.qid = qid]
       IN  IF quiz.exists
           THEN Await(r, [req EXCEPT !.pc = "delete", !.quiz = quiz])
           ELSE Respond(r, req, errorHandler(HttpException(404, "Quiz not found")))
    /\ budget' = budget - 1
    /\ UNCHANGED <<users, quizzes, issued, clock>>

DeleteQuizDelete(r) ==
    /\ reqs[r].kind = "deleteQuiz" /\ reqs[r].pc = "delete"
    /\ quizzes' = StoreDelete(quizzes, reqs[r].qid)
    /\ Respond(r, reqs[r], Json("quiz", reqs[r].qid, reqs[r].quiz.data))
    /\ UNCHANGED <<users, issued, clock, budget>>

\* -------------------------------------------------------- GET /quizzes
\* a precedes b in orderBy('createdOn', 'desc'); documents with equal
\* createdOn follow in descending order of their ids
Precedes(coll, a, b) ==
    \/ coll[a].data.createdOn > coll[b].data.createdOn
    \/ coll[a].data.createdOn = coll[b].data.createdOn /\ a > b

RECURSIVE Sorted(_, _)
Sorted(coll, ids) ==
    IF ids = {} THEN <<>>
    ELSE LET first == CHOOSE a \in ids : \A b \in ids \ {a} : Precedes(coll, a, b)
         IN  <<first>> \o Sorted(coll, ids \ {first})

OrderByCreatedOnDesc(coll) == Sorted(coll, {q \in DOMAIN coll : coll[q].exists})

Take(s, n) == SubSeq(s, 1, IF Len(s) < n THEN Len(s) ELSE n)

\* ListRecent without the limit
ListRecentUnlimited(coll) ==
    LET docs == OrderByCreatedOnDesc(coll)
    IN  [i \in 1..Len(docs) |-> [id |-> docs[i], data |-> coll[docs[i]].data]]

ListRecent(coll) ==
    LET docs == Take(OrderByCreatedOnDesc(coll), Limit)
    IN  [i \in 1..Len(docs) |-> [id |-> docs[i], data |-> coll[docs[i]].data]]

ListQuizzes(r) ==
    /\ Free(r)
    /\ Respond(r, [Idle EXCEPT !.kind = "listQuizzes"],
               [type |-> "quizes", status |-> 200, quizes |-> ListRecent(quizzes)])
    /\ budget' = budget - 1
    /\ UNCHANGED <<users, quizzes, issued, clock>>

\* --------------------------------- POST /users/:userId/quizes/:quizId
EnrollGetUser(r, uid, qid) ==
    /\ Free(r)
    /\ Await(r, [Idle EXCEPT !.kind = "enroll", !.pc = "getQuiz", !.uid = uid,
                             !.qid = qid, !.user = users[uid]])
    /\ budget' = budget - 1
    /\ UNCHANGED <<users, quizzes, issued, clock>>

\* EnrollGetQuiz with the quiz checked before the user
EnrollGetQuizQuizFirst(r) ==
    /\ reqs[r].kind = "enroll" /\ reqs[r].pc = "getQuiz"
    /\ LET user == reqs[r].user
           quiz == quizzes[reqs[r].qid]
       IN  IF ~quiz.exists
           THEN Respond(r, reqs[r], errorHandler(HttpException(404, "Quiz not found")))
           ELSE IF ~user.exists
           THEN Respond(r, reqs[r], errorHandler(HttpException(404, "User not found")))
           ELSE IF ~Includes(user.data.quizIds, reqs[r].qid)
           THEN Await(r, [reqs[r] EXCEPT !.pc = "commit", !.quiz = quiz])
           ELSE Respond(r, reqs[r], [type |-> "message", status |-> 200,
                                     message |-> "Quiz already added"])
    /\ UNCHANGED <<users, quizzes, issued, clock, budget>>

\* the second read and the checks the handler makes on the two snapshots
EnrollGetQuiz(r) ==
    /\ reqs[r].kind = "enroll" /\ reqs[r].pc = "getQuiz"
    /\ LET user == reqs[r].user
           quiz == quizzes[reqs[r].qid]
       IN  IF ~user.exists
           THEN Respond(r, reqs[r], errorHandler(HttpException(404, "User not found")))
           ELSE IF ~quiz.exists
           THEN Respond(r, reqs[r], errorHandler(HttpException(404, "Quiz not found")))
           ELSE IF ~Includes(user.data.quizIds, reqs[r].qid)
           THEN Await(r, [reqs[r] EXCEPT !.pc = "commit", !.quiz = quiz])
           ELSE Respond(r, reqs[r], [type |-> "message", status |-> 200,
                                     message |-> "Quiz already added"])
    /\ UNCHANGED <<users, quizzes, issued, clock, budget>>

\* EnrollCommit with the quiz id pushed onto the array now stored instead
\* of the array the handler read
EnrollCommitOntoStored(r) ==
    /\ reqs[r].kind = "enroll" /\ reqs[r].pc = "commit"
    /\ LET uid == reqs[r].uid
           qid == reqs[r].qid
           userCount == reqs[r].quiz.data.userCount
       IN  IF users[uid].exists /\ quizzes[qid].exists
           THEN /\ quizzes' = StoreUpdate(quizzes, qid, [userCount |-> userCount + 1])
                /\ users' = StoreUpdate(users, uid,
                                [quizIds |-> Append(users[uid].data.quizIds, qid)])
                /\ Respond(r, reqs[r],
                     [type |-> "enrolled", status |-> 200,
                      quiz |-> [id |-> qid,
                                data |-> Spread(reqs[r].quiz.data,
                                                [userCount |-> userCount + 1])],
                      user |-> [id |-> uid, data |-> users'[uid].data]])
           ELSE /\ UNCHANGED <<users, quizzes>>
                /\ Respond(r, reqs[r], errorHandler(StoreError))
    /\ UNCHANGED <<issued, clock, budget>>

\* EnrollCommit as two separate update() calls outside a transaction: each
\* write is applied when its own document exists
EnrollCommitTorn(r) ==
    /\ reqs[r].kind = "enroll" /\ reqs[r].pc = "commit"
    /\ LET uid == reqs[r].uid
           qid == reqs[r].qid
           userQuizIds == Append(reqs[r].user.data.quizIds, qid)
           userCount == reqs[r].quiz.data.userCount
       IN  /\ quizzes' = IF quizzes[qid].exists
                         THEN StoreUpdate(quizzes, qid, [userCount |-> userCount + 1])
                         ELSE quizzes
           /\ users' = IF users[uid].exists
                       THEN StoreUpdate(users, uid, [quizIds |-> userQuizIds])
                       ELSE users
           /\ IF users[uid].exists /\ quizzes[qid].exists
              THEN Respond(r, reqs[r],
                     [type |-> "enrolled", status |-> 200,
                      quiz |-> [id |-> qid,
                                data |-> Spread(reqs[r].quiz.data,
                                                [userCount |-> userCount + 1])],
                      user |-> [id |-> uid,
                                data |-> Spread(reqs[r].user.data,
                                                [quizIds |-> userQuizIds])]])
              ELSE Respond(r, reqs[r], errorHandler(StoreError))
    /\ UNCHANGED <<issued, clock, budget>>

\* the commit of Firestore.runTransaction: the callback read nothing
\* through t, so the two t.update() writes carry only the precondition that
\* their documents exist, and they are applied together or not at all
EnrollCommit(r) ==
    /\ reqs[r].kind = "enroll" /\ reqs[r].pc = "commit"
    /\ LET uid == reqs[r].uid
           qid == reqs[r].qid
           userQuizIds == Append(reqs[r].user.data.quizIds, qid)
           userCount == reqs[r].quiz.data.userCount
       IN  IF users[uid].exists /\ quizzes[qid].exists
           THEN /\ quizzes' = StoreUpdate(quizzes, qid, [userCount |-> userCount + 1])
                /\ users' = StoreUpdate(users, uid, [quizIds |-> userQuizIds])
                /\ Respond(r, reqs[r],
                     [type |-> "enrolled", status |-> 200,
                      quiz |-> [id |-> qid,
                                data |-> Spread(reqs[r].quiz.data,
                                                [userCount |-> userCount + 1])],
                      user |-> [id |-> uid,
                                data |-> Spread(reqs[r].user.data,
                                                [quizIds |-> userQuizIds])]])
           ELSE /\ UNCHANGED <<users, quizzes>>
                /\ Respond(r, reqs[r], errorHandler(StoreError))
    /\ UNCHANGED <<issued, clock, budget>>

\* payloads that pass addQuizSchema and updateQuizSchema, which name the
\* keys name, description and active and no others
SchemaKeys == {"name", "description", "active"}

Validated(bodies) == {body \in bodies : DOMAIN body \subseteq SchemaKeys}

Next ==
    \E r \in ReqId :
        \/ \E body \in UserBodies : CreateUserAdd(r, body)
        \/ CreateUserGet(r)
        \/ \E uid \in DOMAIN users : DeleteUserGet(r, uid)
        \/ DeleteUserDelete(r)
        \/ \E body \in QuizBodies : CreateQuizAdd(r, body)
        \/ CreateQuizGet(r)
        \/ \E qid \in DOMAIN quizzes, body \in UpdateBodies : UpdateQuizGet(r, qid, body)
        \/ UpdateQuizUpdate(r)
        \/ \E qid \in DOMAIN quizzes : DeleteQuizGet(r, qid)
        \/ DeleteQuizDelete(r)
        \/ \E uid \in DOMAIN users, qid \in DOMAIN quizzes : EnrollGetUser(r, uid, qid)
        \/ EnrollGetQuiz(r)
        \/ EnrollCommit(r)

\* every payload that reaches a handler, whatever its keys
Spec == Init /\ [][Next]_vars

NextValidated ==
    \E r \in ReqId :
        \/ \E body \in UserBodies : CreateUserAdd(r, body)
        \/ CreateUserGet(r)
        \/ \E uid \in DOMAIN users : DeleteUserGet(r, uid)
        \/ DeleteUserDelete(r)
        \/ \E body \in Validated(QuizBodies) : CreateQuizAdd(r, body)
        \/ CreateQuizGet(r)
        \/ \E qid \in DOMAIN quizzes, body \in Validated(UpdateBodies) :
              UpdateQuizGet(r, qid, body)
        \/ UpdateQuizUpdate(r)
        \/ \E qid \in DOMAIN quizzes : DeleteQuizGet(r, qid)
        \/ DeleteQuizDelete(r)
        \/ \E uid \in DOMAIN users, qid \in DOMAIN quizzes : EnrollGetUser(r, uid, qid)
        \/ EnrollGetQuiz(r)
        \/ EnrollCommit(r)

\* only the payloads the validation schemas let through
SpecValidated == Init /\ [][NextValidated]_vars

\* the validated requests with one more request to arrive: three Enrolls
\* after the two users and the quiz they join are created
InitLong ==
    /\ users = [u \in UserId |-> NoDoc]
    /\ quizzes = [q \in QuizId |-> NoDoc]
    /\ issued = [users |-> {}, quizzes |-> {}]
    /\ clock = 0
    /\ reqs = [r \in ReqId |-> Idle]
    /\ sent = Sent(Idle, NoResp)
    /\ budget = MaxRequests + 1
    /\ solo = "no"

SpecValidatedLong == InitLong /\ [][NextValidated]_vars

\* ----------------------------------------------------------------------
\* The quizzes collection filled past the limit of GET /quizzes: requests
\* are served one at a time and only create and list quizzes.
ListRequests == Limit + ListExtra + 1

InitList ==
    /\ users = [u \in UserId |-> NoDoc]
    /\ quizzes = [q \in ListQuizId |-> NoDoc]
    /\ issued = [users |-> {}, quizzes |-> {}]
    /\ clock = 0
    /\ reqs = [r \in ReqId |-> Idle]
    /\ sent = Sent(Idle, NoResp)
    /\ budget = ListRequests
    /\ solo = "no"

NextList ==
    \/ \E body \in QuizBodies : CreateQuizAdd(1, body)
    \/ CreateQuizGet(1)
    \/ ListQuizzes(1)

SpecList == InitList /\ [][NextList]_vars

\* ======================================================================
\* Properties
\* ======================================================================
Exists(coll) == {id \in DOMAIN coll : coll[id].exists}

Enrolled(q) == {u \in Exists(users) : Includes(users[u].data.quizIds, q)}

\* C1: every existing quiz's userCount equals the number of distinct
\* existing users whose quizIds contains the quiz's id.
C1_UserCountMatchesEnrollment ==
    \A q \in Exists(quizzes) : quizzes[q].data.userCount = Cardinality(Enrolled(q))

\* the step taken is a step of the request served by slot r
StepOf(r) == reqs'[r] # reqs[r]

NoDuplicates(s) == \A i, j \in 1..Len(s) : s[i] = s[j] => i = j

C3_ConcurrentEnrollsBothCounted ==
    [][\A r \in ReqId :
        (/\ reqs[r].kind = "enroll" /\ reqs[r].pc = "commit" /\ StepOf(r)
         /\ sent.kind = "enroll" /\ sent.resp.type = "enrolled"
         /\ sent.qid = reqs[r].qid /\ sent.uid # reqs[r].uid
         /\ sent.resp.quiz.data.userCount = reqs[r].quiz.data.userCount + 1
         /\ quizzes[reqs[r].qid].exists
         /\ quizzes[reqs[r].qid].data.userCount = reqs[r].quiz.data.userCount + 1)
        => /\ sent'.resp.type = "enrolled"
           /\ quizzes'[reqs[r].qid].data.userCount = reqs[r].quiz.data.userCount + 2]_vars

\* C4: the commit of an Enroll either applies both of its writes (the
\* quiz's userCount and the user's quizIds) and answers with success, or
\* applies neither, leaves both collections as they were and answers with
\* the store's error.
C4_EnrollWritesAllOrNothing ==
    [][\A r \in ReqId :
        (reqs[r].kind = "enroll" /\ reqs[r].pc = "commit" /\ StepOf(r))
        => \/ /\ sent'.resp.type = "enrolled"
              /\ users'[reqs[r].uid].exists /\ quizzes'[reqs[r].qid].exists
              /\ users'[reqs[r].uid].data.quizIds =
                    Append(reqs[r].user.data.quizIds, reqs[r].qid)
              /\ quizzes'[reqs[r].qid].data.userCount =
                    reqs[r].quiz.data.userCount + 1
           \/ /\ sent'.resp.type = "error" /\ sent'.resp.status = 500
              /\ UNCHANGED <<users, quizzes>>]_vars

\* an Enroll's transaction has failed on a document deleted after the
\* handler's existence check, and the surviving document holds no write of it
C4_Witness ==
    /\ sent.kind = "enroll" /\ sent.resp.type = "error" /\ sent.resp.status = 500
    /\ \/ /\ users[sent.uid].exists /\ ~quizzes[sent.qid].exists
          /\ ~Includes(users[sent.uid].data.quizIds, sent.qid)
       \/ /\ ~users[sent.uid].exists /\ quizzes[sent.qid].exists
          /\ quizzes[sent.qid].data.userCount = 0

\* C5: an Enroll of a user and quiz that is called after an Enroll of the
\* same pair has answered with success, with no other request in between,
\* changes neither collection and answers 'Quiz already added'.
C5_SecondEnrollChangesNothing ==
    [][solo' \in {"running", "done"}
        => /\ UNCHANGED <<users, quizzes>>
           /\ solo' = "done" =>
                /\ sent'.kind = "enroll" /\ sent'.resp.type = "message"
                /\ sent'.resp.message = "Quiz already added"]_vars

\* the second Enroll of a pair has answered; the user is enrolled once
C5_Witness ==
    /\ solo = "done"
    /\ sent.resp.type = "message"
    /\ Includes(users[sent.uid].data.quizIds, sent.qid)
    /\ quizzes[sent.qid].data.userCount = 1

NotFound(message) == [type |-> "error", status |-> 404, error |-> message]

\* C6: an Enroll whose user or quiz is missing when the handler reads it
\* answers 404 naming the missing entity, 'User not found' when both are
\* missing, and no step of the request up to that answer writes to a
\* collection.
C6_EnrollMissingIsNotFound ==
    [][\A r \in ReqId :
        /\ (reqs[r] = Idle /\ reqs'[r].kind = "enroll")
           => /\ UNCHANGED <<users, quizzes>>
              /\ reqs'[r].user = users[reqs'[r].uid]
        /\ (reqs[r].kind = "enroll" /\ reqs[r].pc = "getQuiz" /\ StepOf(r))
           => /\ UNCHANGED <<users, quizzes>>
              /\ ~reqs[r].user.exists
                 => /\ reqs'[r] = Idle
                    /\ sent' = Sent(reqs[r], NotFound("User not found"))
              /\ (reqs[r].user.exists /\ ~quizzes[reqs[r].qid].exists)
                 => /\ reqs'[r] = Idle
                    /\ sent' = Sent(reqs[r], NotFound("Quiz not found"))]_vars

\* an Enroll with both the user and the quiz missing has answered
C6_Witness ==
    /\ sent.kind = "enroll"
    /\ sent.resp = NotFound("User not found")
    /\ ~users[sent.uid].exists /\ ~quizzes[sent.qid].exists

\* C7: the update step of a PartialUpdate never changes the stored
\* userCount or createdOn of the quiz, whatever keys the payload carries,
\* and the view it returns carries the stored userCount.
C7_UpdateKeepsUserCountAndCreatedOn ==
    [][\A r \in ReqId :
        (/\ reqs[r].kind = "updateQuiz" /\ reqs[r].pc = "update" /\ StepOf(r)
         /\ quizzes[reqs[r].qid].exists)
        => /\ quizzes'[reqs[r].qid].data.userCount = quizzes[reqs[r].qid].data.userCount
           /\ quizzes'[reqs[r].qid].data.createdOn = quizzes[reqs[r].qid].data.createdOn
           /\ sent'.resp.data.userCount = quizzes[reqs[r].qid].data.userCount]_vars

\* C8: the step that stores a new quiz stores it with userCount 0 and with
\* createdOn the store's time at the write, whatever the payload carries,
\* under an id that held no document, and changes no other document.
C8_CreateQuizForcesFields ==
    [][\A r \in ReqId :
        (reqs[r] = Idle /\ reqs'[r].kind = "createQuiz")
        => LET id == reqs'[r].qid IN
           /\ ~quizzes[id].exists /\ quizzes'[id].exists
           /\ quizzes'[id].data.userCount = 0
           /\ quizzes'[id].data.createdOn = clock'
           /\ clock' \in ServerTimestamp
           /\ quizzes'[id].data.name = reqs'[r].body.name
           /\ \A q \in DOMAIN quizzes \ {id} : quizzes'[q] = quizzes[q]
           /\ users' = users]_vars

\* a quiz has been stored from a payload that carries userCount and createdOn
C8_Witness ==
    \E r \in ReqId :
        /\ reqs[r].kind = "createQuiz"
        /\ {"userCount", "createdOn"} \subseteq DOMAIN reqs[r].body
        /\ reqs[r].body.userCount # 0
        /\ quizzes[reqs[r].qid].exists
        /\ quizzes[reqs[r].qid].data.userCount = 0
        /\ quizzes[reqs[r].qid].data.createdOn = clock

\* C9: a Delete of an absent id answers NotFound and changes nothing; a
\* Delete of a present id goes on to delete, and its delete step, whether
\* or not the document is still there, leaves the document absent, changes
\* nothing else and answers with the field values it read plus the id,
\* never with a store error.
C9_DeleteLooksUpThenDeletes ==
    [][/\ \A r \in ReqId :
            /\ (reqs[r] = Idle /\ reqs'[r].kind = "deleteUser")
               => /\ users[reqs'[r].uid].exists
                  /\ reqs'[r].user = users[reqs'[r].uid]
                  /\ UNCHANGED <<users, quizzes>>
            /\ (reqs[r] = Idle /\ reqs'[r].kind = "deleteQuiz")
               => /\ quizzes[reqs'[r].qid].exists
                  /\ reqs'[r].quiz = quizzes[reqs'[r].qid]
                  /\ UNCHANGED <<users, quizzes>>
            /\ (reqs[r].kind = "deleteUser" /\ StepOf(r))
               => /\ sent'.resp = Json("user", reqs[r].uid, reqs[r].user.data)
                  /\ users' = [users EXCEPT ![reqs[r].uid] = NoDoc]
                  /\ quizzes' = quizzes
            /\ (reqs[r].kind = "deleteQuiz" /\ StepOf(r))
               => /\ sent'.resp = Json("quiz", reqs[r].qid, reqs[r].quiz.data)
                  /\ quizzes' = [quizzes EXCEPT ![reqs[r].qid] = NoDoc]
                  /\ users' = users
       /\ (reqs' = reqs /\ budget' < budget /\ sent'.kind = "deleteUser")
          => /\ ~users[sent'.uid].exists
             /\ sent'.resp = NotFound("User not found")
             /\ UNCHANGED <<users, quizzes>>
       /\ (reqs' = reqs /\ budget' < budget /\ sent'.kind = "deleteQuiz")
          => /\ ~quizzes[sent'.qid].exists
             /\ sent'.resp = NotFound("Quiz not found")
             /\ UNCHANGED <<users, quizzes>>]_vars

\* of two interleaved Deletes of one user the first has deleted the user
\* and answered with the values it read, and the second, which read the
\* same values, is about to delete the document that is no longer there
C9_Witness ==
    \E r \in ReqId :
        /\ reqs[r].kind = "deleteUser" /\ reqs[r].pc = "delete"
        /\ ~users[reqs[r].uid].exists
        /\ sent.kind = "deleteUser" /\ sent.uid = reqs[r].uid
        /\ sent.resp = Json("user", reqs[r].uid, reqs[r].user.data)

Min(a, b) == IF a < b THEN a ELSE b

\* C10: ListRecent answers with min(10, n) distinct stored quizzes, n the
\* number of stored quizzes, each with its stored fields, in descending
\* order of createdOn, none of them created before a stored quiz that is
\* left out, and changes no document.
C10_ListRecentIsTheLatestTen ==
    [][(reqs' = reqs /\ budget' < budget /\ sent'.kind = "listQuizzes")
        => LET res == sent'.resp.quizes
               listed == {res[i].id : i \in 1..Len(res)}
           IN  /\ Len(res) = Min(10, Cardinality(Exists(quizzes)))
               /\ Cardinality(listed) = Len(res)
               /\ listed \subseteq Exists(quizzes)
               /\ \A i \in 1..Len(res) : res[i].data = quizzes[res[i].id].data
               /\ \A i, j \in 1..Len(res) :
                    i < j => res[i].data.createdOn >= res[j].data.createdOn
               /\ \A i \in 1..Len(res), q \in Exists(quizzes) \ listed :
                    res[i].data.createdOn >= quizzes[q].data.createdOn
               /\ UNCHANGED <<users, quizzes>>]_vars

\* ten of more than ten stored quizzes have been listed, and the ids of the
\* listed quizzes are in neither ascending nor descending order
C10_Witness ==
    /\ sent.kind = "listQuizzes"
    /\ Len(sent.resp.quizes) = 10
    /\ Cardinality(Exists(quizzes)) > 10
    /\ \E i \in 1..9 : sent.resp.quizes[i].id < sent.resp.quizes[i + 1].id
    /\ \E i \in 1..9 : sent.resp.quizes[i].id > sent.resp.quizes[i + 1].id
    /\ \E i \in 1..9 :
         sent.resp.quizes[i].data.createdOn > sent.resp.quizes[i + 1].data.createdOn

IsPrefix(s, t) == Len(s) <= Len(t) /\ SubSeq(t, 1, Len(s)) = s

\* C11: a user's quizIds is append-only: in every step, for a user that
\* exists before and after it, the quizIds stored before is a prefix of the
\* quizIds stored after; so two interleaved Enrolls of one user into two
\* quizzes that both succeed leave both quiz ids in the user's quizIds.
C11_QuizIdsAppendOnly ==
    [][\A u \in DOMAIN users :
        (users[u].exists /\ users'[u].exists)
        => IsPrefix(users[u].data.quizIds, users'[u].data.quizIds)]_vars

\* C12: in every step, a quiz that exists before and after it has a
\* userCount after the step that is no less than its userCount before.
C12_UserCountNeverDecreases ==
    [][\A q \in DOMAIN quizzes :
        (quizzes[q].exists /\ quizzes'[q].exists)
        => quizzes'[q].data.userCount >= quizzes[q].data.userCount]_vars

====
